---- MODULE Spec2Model ----
(***************************************************************************)
(* State-machine model of src/main.py: the OAuth2 token lifecycle, the     *)
(* authorization redirect flow, the upstream API proxy routes and the      *)
(* receipt log of the VAT filer.                                           *)
(*                                                                         *)
(* Every async route handler is a process that runs atomically from one    *)
(* await on the network to the next (asyncio's single event loop); the     *)
(* authority's answers are inputs chosen by the environment.               *)
(***************************************************************************)
EXTENDS Integers, Sequences, FiniteSets, TLC

VARIABLES
    now,            \* time.time(), in whole seconds
    STORE,          \* the module-level dict: tokens, state, device_id
    TOKEN_FILE,     \* tokens.json
    RECEIPTS_FILE,  \* receipts.json
    hs,             \* one record per request handler in flight
    issued,         \* authority: number of token responses issued so far
    uuids,          \* number of uuid4() values drawn so far
    mismatched,     \* history: a callback has failed with "state mismatch"
                    \* against the pending nonce since connect stored it
    session         \* request.session of the browser: the signed session cookie

vars == <<now, STORE, TOKEN_FILE, RECEIPTS_FILE, hs, issued, uuids, mismatched,
          session>>

----------------------------------------------------------------------------
(* Bounds of the model *)

MaxTime == 3
MaxIssued == 2
MaxUuids == 3
MaxReceipts == 2

(* Program constants *)

RefreshMargin == 60          \* "refresh a minute early"
NotConnectedStatus == 401
StateMismatchStatus == 400
OkStatus == 200
SeeOtherStatus == 303        \* RedirectResponse(..., status_code=303)
APP_USER == "admin"          \* os.getenv("APP_USER", "admin")
APP_PASS == "admin123"       \* os.getenv("APP_PASS", "admin123")

----------------------------------------------------------------------------
(* Values *)

Handlers == {1, 2}           \* the handler slots of the model
SeqHandlers == {1}           \* one request at a time

None == [kind |-> "none"]          \* Python's None, for dict-valued slots
NoneStr == "None"                  \* Python's None, for str-valued slots
NoState == 0                       \* STORE["state"] = None

ProxyOps == {"obligations", "submit_return", "view_return", "liabilities", "payments"}
ListOps == {"obligations", "liabilities", "payments"}

Scenarios == {NoneStr, "", "S1"}   \* the optional scenario query parameter

ExpiresIns == {61, 62}             \* expires_in values the authority issues (> 60)

\* The answers with status >= 400 the authority gives: r.status_code, r.text.
Errors == { [status |-> 400, body |-> "e1"], [status |-> 503, body |-> "e2"] }

\* The JSON objects a successful POST .../returns of a payload with periodKey pk
\* answers with: the plain acknowledgement, or the payload echoed back with
\* processingDate added.
SubmitResponses(pk) ==
    { [processingDate |-> "d1"] }
    \cup (IF pk = NoneStr THEN {} ELSE { [periodKey |-> pk, processingDate |-> "d1"] })

\* A receipt already in receipts.json when the process first starts.
OldReceipt == [vrn |-> "V0", periodKey |-> "17A4", processingDate |-> "d0"]

\* The headers of a request that has not been sent.
NoHeaders == [k \in {} |-> ""]

\* request.session of a browser that has no session cookie: the empty dict.
NoSession == [k \in {} |-> ""]

\* The form of a request that posts none.
NoForm == [k \in {} |-> ""]

\* The forms a browser posts to /login: each field right, wrong or missing.
Field(k, values) == { [j \in {} |-> ""] } \cup { [j \in {k} |-> v] : v \in values }
LoginForms ==
    { u @@ p : u \in Field("username", {APP_USER, "guest"}),
               p \in Field("password", {APP_PASS, "admin"}) }

\* The token endpoint has not answered the handler's refresh.
NoAnswer == [kind |-> "none"]

\* The requests of the five proxy routes. vrn and periodKey reach the state only
\* through submit_return's receipt; scenario is the scenario query parameter,
\* which only the list routes declare; ua is the incoming user-agent header and
\* client the peer address, both there for an ordinary caller.
Request(op, vrn, pk, scenario) ==
    [op |-> op, pc |-> "idle", vrn |-> vrn, pk |-> pk,
     scenario |-> scenario, ua |-> "UA1", client |-> "10.0.0.1",
     cbstate |-> NoState, rt |-> 0, tok |-> 0,
     nTok |-> 0, nApi |-> 0, headers |-> NoHeaders, answer |-> NoAnswer,
     form |-> NoForm, status |-> 0, body |-> ""]

\* The same request with no user-agent header and no peer address.
Bare(req) == [req EXCEPT !.ua = NoneStr, !.client = NoneStr]

ListRequests ==
    { Request(op, "V1", NoneStr, s) : op \in ListOps, s \in Scenarios }
    \cup { Bare(Request("obligations", "V1", NoneStr, NoneStr)) }
\* A scenario query parameter may come with any request; view_return and
\* submit_return do not declare it.
ViewRequests == { Request("view_return", "V1", "18A1", "S1") }
SubmitRequests ==
    { Request("submit_return", "V1", "18A1", NoneStr),
      Request("submit_return", "V2", NoneStr, "S1") }
ProxyRequests == ListRequests \cup ViewRequests \cup SubmitRequests

\* The requests of the two-handler specification.
ConcRequests ==
    { Request("obligations", "V1", NoneStr, NoneStr),
      Request("submit_return", "V1", "18A1", NoneStr) }

Idle ==
    [op |-> "none", pc |-> "idle", vrn |-> NoneStr, pk |-> NoneStr,
     scenario |-> NoneStr, ua |-> NoneStr, client |-> NoneStr,
     cbstate |-> NoState, rt |-> 0, tok |-> 0,
     nTok |-> 0, nApi |-> 0, headers |-> NoHeaders, answer |-> NoAnswer,
     form |-> NoForm, status |-> 0, body |-> ""]

----------------------------------------------------------------------------
(* Persistence: lines 43-62 *)

Absent == [kind |-> "absent"]               \* the file does not exist
Corrupt == [kind |-> "corrupt"]             \* the file exists, json.loads raises
Dumps(v) == [kind |-> "json", val |-> v]    \* json.dumps(v), written whole

load_tokens(file) ==
    IF file.kind = "json" THEN file.val ELSE None

save_tokens(tokens) == Dumps(tokens)

\* {"vrn": vrn, "periodKey": period_key, **receipt}: the keys of receipt win.
ReceiptRecord(vrn, period_key, receipt) ==
    LET base == [vrn |-> vrn, periodKey |-> period_key]
    IN [k \in (DOMAIN base) \cup (DOMAIN receipt) |->
            IF k \in DOMAIN receipt THEN receipt[k] ELSE base[k]]

\* The list json.loads gives for receipts.json, [] when absent or unparsable.
ReadReceipts(file) ==
    IF file.kind = "json" THEN file.val ELSE <<>>

\* Mutant: the file is rewritten with the new record alone.
append_receipt_Overwrites(file, vrn, period_key, receipt) ==
    Dumps(<<ReceiptRecord(vrn, period_key, receipt)>>)

\* Mutant: a period that already has a receipt for the vrn gets no second one.
append_receipt_Dedup(file, vrn, period_key, receipt) ==
    IF \E i \in DOMAIN ReadReceipts(file) :
          /\ ReadReceipts(file)[i].vrn = vrn
          /\ ReadReceipts(file)[i].periodKey = period_key
    THEN Dumps(ReadReceipts(file))
    ELSE Dumps(Append(ReadReceipts(file), ReceiptRecord(vrn, period_key, receipt)))

append_receipt(file, vrn, period_key, receipt) ==
    Dumps(Append(ReadReceipts(file), ReceiptRecord(vrn, period_key, receipt)))

\* GET /api/receipts
receipts == ReadReceipts(RECEIPTS_FILE)

----------------------------------------------------------------------------
(* Token sets *)

\* A token response of the authority: r.json() of POST /oauth/token.
TokenResponse(n, e) ==
    [kind |-> "tokens", access_token |-> n, refresh_token |-> n, expires_in |-> e]

\* tokens["obtained_at"] = time.time()
Stamp(t, time) ==
    [k \in (DOMAIN t) \cup {"obtained_at"} |->
        IF k = "obtained_at" THEN time ELSE t[k]]

\* t.get("obtained_at"): None when the key is missing; None and 0 are both falsy.
ObtainedAt(t) == IF "obtained_at" \in DOMAIN t THEN t.obtained_at ELSE 0

\* if not t
NotConnected(t) == t = None

\* Mutant: the refresh is taken two minutes early.
NeedsRefresh_TwoMinutes(t, time) ==
    /\ ObtainedAt(t) # 0
    /\ (ObtainedAt(t) + t.expires_in - 2 * RefreshMargin) < time

\* if obtained and (obtained + expires_in - 60) < time.time()
NeedsRefresh(t, time) ==
    /\ ObtainedAt(t) # 0
    /\ (ObtainedAt(t) + t.expires_in - RefreshMargin) < time

----------------------------------------------------------------------------
(* Initial state: the process has just started for the first time. *)

InitTokenFiles ==
    {Absent, Corrupt}
    \cup { Dumps(Stamp(TokenResponse(0, e), 1)) : e \in ExpiresIns }
    \cup { Dumps(TokenResponse(0, e)) : e \in ExpiresIns }

InitReceiptFiles == {Absent, Corrupt, Dumps(<<OldReceipt>>)}

\* Mutant: the process starts with no TokenSet, whatever tokens.json holds.
NewStore_NotRehydrated(file, uuid) ==
    [tokens |-> None, state |-> NoState, device_id |-> uuid]

\* STORE = {"tokens": load_tokens(), "state": None, "device_id": str(uuid.uuid4())}
NewStore(file, uuid) ==
    [tokens |-> load_tokens(file), state |-> NoState, device_id |-> uuid]

Init ==
    /\ now = 1
    /\ TOKEN_FILE \in InitTokenFiles
    /\ RECEIPTS_FILE \in InitReceiptFiles
    /\ uuids = 1
    /\ STORE = NewStore(TOKEN_FILE, 1)
    /\ hs = [h \in Handlers |-> Idle]
    /\ issued = 0
    /\ mismatched = FALSE
    /\ session = NoSession

\* The start of the two-handler specification, at the first instant or at the
\* last: nothing stored, or a TokenSet with or without obtained_at, and a log
\* that is empty or not.
ConcInit ==
    /\ now \in {1, MaxTime}
    /\ TOKEN_FILE \in {Absent, Dumps(Stamp(TokenResponse(0, 61), 1)),
                       Dumps(TokenResponse(0, 61))}
    /\ RECEIPTS_FILE \in {Absent, Dumps(<<OldReceipt>>)}
    /\ uuids = 1
    /\ STORE = NewStore(TOKEN_FILE, 1)
    /\ hs = [h \in Handlers |-> Idle]
    /\ issued = 0
    /\ mismatched = FALSE
    /\ session = NoSession

----------------------------------------------------------------------------
(* Environment *)

\* The clock goes on, up to the instant limit.
TickTo(limit) ==
    /\ now < limit
    /\ now' = now + 1
    /\ UNCHANGED <<STORE, TOKEN_FILE, RECEIPTS_FILE, hs, issued, uuids, mismatched, session>>

Tick == TickTo(MaxTime)

\* The process is stopped and started again: line 76 runs anew, the handlers
\* in flight are gone, the files stay.
Restart ==
    /\ uuids < MaxUuids
    /\ uuids' = uuids + 1
    /\ STORE' = NewStore(TOKEN_FILE, uuids + 1)
    /\ hs' = [h \in Handlers |-> Idle]
    /\ mismatched' = FALSE
    /\ UNCHANGED <<now, TOKEN_FILE, RECEIPTS_FILE, issued, session>>

\* The caller has its answer; the handler slot is free again.
Finish(h) ==
    /\ hs[h].pc = "done"
    /\ hs' = [hs EXCEPT ![h] = Idle]
    /\ UNCHANGED <<now, STORE, TOKEN_FILE, RECEIPTS_FILE, issued, uuids, mismatched, session>>

----------------------------------------------------------------------------
(* access_token(), lines 117-144, as the first part of every proxy route *)

\* raise HTTPException(status, body)
Raise(h, st, b) ==
    hs' = [hs EXCEPT ![h].pc = "done", ![h].status = st, ![h].body = b]

\* Mutant: a single-flight guard; while a refresh is in flight no second one
\* is posted and the route goes on with the token that is stored.
SendRefresh_SingleFlight(h, req, t) ==
    IF \E g \in Handlers : hs[g].pc = "refreshing"
    THEN hs' = [hs EXCEPT ![h] = [req EXCEPT !.pc = "calling",
                                             !.tok = t.access_token, !.nApi = 1]]
    ELSE hs' = [hs EXCEPT ![h] = [req EXCEPT !.pc = "refreshing",
                                             !.rt = t.refresh_token, !.nTok = 1]]

\* The handler awaits the refresh_token grant it has just posted.
SendRefresh(h, req, t) ==
    hs' = [hs EXCEPT ![h] = [req EXCEPT !.pc = "refreshing",
                                        !.rt = t.refresh_token, !.nTok = 1]]

\* f"Bearer {tok}"
Bearer(tok) == <<"Bearer", tok>>

\* if scenario: neither None nor the empty string
Truthy(str) == str # NoneStr /\ str # ""

\* Mutant: the device id header is a fresh uuid for every request.
DeviceIdHeader_PerRequest == <<uuids + 1>>

\* "Gov-Client-Device-Id": STORE["device_id"]
DeviceIdHeader == <<STORE.device_id>>

\* hmrc_headers(request), lines 81-94
hmrc_headers(req) ==
    LET ua == IF req.ua # NoneStr THEN req.ua ELSE "my-vat-filer/1.0"
        client_ip == IF req.client # NoneStr THEN req.client ELSE "203.0.113.10"
    IN ("Accept" :> <<"application/vnd.hmrc.1.0+json">>)
       @@ ("User-Agent" :> <<"my-vat-filer/1.0">>)
       @@ ("Gov-Client-Device-Id" :> DeviceIdHeader)
       @@ ("Gov-Client-Public-IP" :> <<client_ip>>)
       @@ ("Gov-Client-Local-IPs" :> <<"192.168.1.10">>)
       @@ ("Gov-Client-Timezone" :> <<"UTC+00:00">>)
       @@ ("Gov-Client-User-IDs" :> <<"os=user123">>)
       @@ ("Gov-Vendor-Version" :> <<"my-vat-filer=1.0.0">>)
       @@ ("Gov-Client-User-Agent" :> <<ua>>)

\* Mutant: the scenario header goes out whenever the query carries the parameter.
ScenarioHeader_AnyRoute(req) ==
    IF req.scenario # NoneStr
    THEN "Gov-Test-Scenario" :> <<req.scenario>>
    ELSE NoHeaders

\* if scenario: headers["Gov-Test-Scenario"] = scenario, in the three list routes
ScenarioHeader(req) ==
    IF req.op \in ListOps /\ Truthy(req.scenario)
    THEN "Gov-Test-Scenario" :> <<req.scenario>>
    ELSE NoHeaders

\* The headers of the API call of each route: lines 221-223, 234-238, 253,
\* 262-264, 275-277. The keys set last win.
ApiHeaders(req, tok) ==
    ScenarioHeader(req)
    @@ (IF req.op = "submit_return"
        THEN "Content-Type" :> <<"application/json">>
        ELSE NoHeaders)
    @@ ("Authorization" :> Bearer(tok))
    @@ hmrc_headers(req)

\* access_token() has returned tok; the handler awaits the API call it posted.
SendApi(h, req, tok) ==
    hs' = [hs EXCEPT ![h] = [req EXCEPT !.pc = "calling", !.tok = tok,
                                        !.nApi = req.nApi + 1,
                                        !.headers = ApiHeaders(req, tok)]]

\* Mutant: without a TokenSet the route goes upstream all the same, with no token.
NotConnectedError_CallsAnyway(h, req) == SendApi(h, req, 0)

\* raise HTTPException(401, "Not connected to HMRC yet.")
NotConnectedError(h, req) ==
    hs' = [hs EXCEPT ![h] = [req EXCEPT !.pc = "done",
                                        !.status = NotConnectedStatus,
                                        !.body = "Not connected to HMRC yet."]]

\* A request for a proxy route arrives and runs up to its first network await.
ProxyStart(h, req) ==
    /\ hs[h].pc = "idle"
    /\ LET t == STORE.tokens
       IN IF NotConnected(t)
          THEN NotConnectedError(h, req)
          ELSE IF NeedsRefresh(t, now)
               THEN SendRefresh(h, req, t)
               ELSE SendApi(h, req, t.access_token)
    /\ UNCHANGED <<now, STORE, TOKEN_FILE, RECEIPTS_FILE, issued, uuids, mismatched, session>>

\* Mutant: a failed refresh drops the TokenSet from memory.
RefreshFailed_ClearsTokens(h, st, b) ==
    /\ Raise(h, st, b)
    /\ STORE' = [STORE EXCEPT !.tokens = None]
    /\ UNCHANGED <<TOKEN_FILE, issued>>

\* The token endpoint answers the refresh with status >= 400: lines 137-138.
RefreshFailed(h, st, b) ==
    /\ Raise(h, st, b)
    /\ UNCHANGED <<STORE, TOKEN_FILE, issued>>

\* Mutant: the refresh response is merged into the stored TokenSet, whose
\* refresh token stays.
RefreshSucceeded_Merges(h, e) ==
    LET t == Stamp([STORE.tokens EXCEPT !.access_token = issued + 1,
                                        !.expires_in = e], now)
    IN /\ issued < MaxIssued
       /\ issued' = issued + 1
       /\ STORE' = [STORE EXCEPT !.tokens = t]
       /\ TOKEN_FILE' = save_tokens(t)
       /\ SendApi(h, hs[h], t.access_token)

\* Mutant: the refreshed TokenSet is stored and the call goes out with the
\* access token read before the refresh.
RefreshSucceeded_StaleBearer(h, e) ==
    LET t == Stamp(TokenResponse(issued + 1, e), now)
    IN /\ issued < MaxIssued
       /\ issued' = issued + 1
       /\ STORE' = [STORE EXCEPT !.tokens = t]
       /\ TOKEN_FILE' = save_tokens(t)
       /\ SendApi(h, hs[h], STORE.tokens.access_token)

\* Mutant: of the refresh response only the access token is taken over; the
\* refresh token that is stored stays.
StoreRefreshed_KeepsRefreshToken(h, t) ==
    LET kept == [t EXCEPT !.refresh_token = STORE.tokens.refresh_token]
    IN /\ STORE' = [STORE EXCEPT !.tokens = kept]
       /\ TOKEN_FILE' = save_tokens(kept)
       /\ SendApi(h, hs[h], kept.access_token)

\* t = r.json() stamped; STORE["tokens"] = t; save_tokens(t); return
\* t["access_token"]: lines 139-144.
StoreRefreshed(h, t) ==
    /\ STORE' = [STORE EXCEPT !.tokens = t]
    /\ TOKEN_FILE' = save_tokens(t)
    /\ SendApi(h, hs[h], t.access_token)

\* The token endpoint answers the refresh with a token response: lines 139-144.
RefreshSucceeded(h, e) ==
    /\ issued < MaxIssued
    /\ issued' = issued + 1
    /\ StoreRefreshed(h, Stamp(TokenResponse(issued + 1, e), now))

RefreshResponse(h) ==
    /\ hs[h].pc = "refreshing"
    /\ \/ \E err \in Errors : RefreshFailed(h, err.status, err.body)
       \/ \E e \in ExpiresIns : RefreshSucceeded(h, e)
    /\ UNCHANGED <<now, RECEIPTS_FILE, uuids, mismatched, session>>

----------------------------------------------------------------------------
(* An authority that rotates refresh tokens: the refresh token it accepts is the *)
(* one it issued last, and a refresh it grants issues the next one. The          *)
(* authority takes up the handler's POST at one moment and the handler gets the  *)
(* answer at a later one.                                                        *)

\* The token endpoint takes up the refresh handler h has posted (lines 127-136)
\* and makes its answer: an error whenever the refresh token is no longer the
\* valid one, and otherwise an error or the next token response.
AuthorityRotates(h) ==
    /\ hs[h].pc = "refreshing"
    /\ hs[h].answer = NoAnswer
    /\ \/ /\ hs[h].rt = issued
          /\ issued < MaxIssued
          /\ issued' = issued + 1
          /\ \E e \in ExpiresIns :
                hs' = [hs EXCEPT ![h].answer =
                          [kind |-> "ok", tokens |-> TokenResponse(issued + 1, e)]]
       \/ /\ issued' = issued
          /\ \E err \in Errors :
                hs' = [hs EXCEPT ![h].answer = [kind |-> "error", error |-> err]]
    /\ UNCHANGED <<now, STORE, TOKEN_FILE, RECEIPTS_FILE, uuids, mismatched, session>>

\* The handler gets the answer to its refresh: lines 137-144.
RotatedResponse(h) ==
    /\ hs[h].pc = "refreshing"
    /\ hs[h].answer # NoAnswer
    /\ IF hs[h].answer.kind = "error"
       THEN RefreshFailed(h, hs[h].answer.error.status, hs[h].answer.error.body)
       ELSE /\ StoreRefreshed(h, Stamp(hs[h].answer.tokens, now))
            /\ issued' = issued
    /\ UNCHANGED <<now, RECEIPTS_FILE, uuids, mismatched, session>>

----------------------------------------------------------------------------
(* The proxy routes after access_token(), lines 217-282 *)

\* Mutant: the receipt is written before the status is looked at.
ApiFailed_LogsAnyway(h, st, b) ==
    /\ Raise(h, st, b)
    /\ RECEIPTS_FILE' =
          IF hs[h].op = "submit_return"
          THEN append_receipt(RECEIPTS_FILE, hs[h].vrn, hs[h].pk, [code |-> b])
          ELSE RECEIPTS_FILE

\* Mutant: every upstream failure is answered as 502 with a text of the proxy.
ApiFailed_BadGateway(h, st, b) ==
    /\ Raise(h, 502, "upstream error")
    /\ UNCHANGED RECEIPTS_FILE

\* The API answers with status >= 400: raise HTTPException(r.status_code, r.text).
ApiFailed(h, st, b) ==
    /\ Raise(h, st, b)
    /\ UNCHANGED RECEIPTS_FILE

\* The API answers a route other than submit_return with success: return r.json().
ApiSucceeded(h) ==
    /\ hs[h].op # "submit_return"
    /\ Raise(h, OkStatus, "json")
    /\ UNCHANGED RECEIPTS_FILE

\* Mutant: the log is read before the upstream call and written after it, so
\* the record of a submission accepted in between is written over.
SubmitSucceeded_LostUpdate(h, resp) ==
    LET other == \E g \in Handlers :
                    /\ g # h
                    /\ hs[g].op = "submit_return"
                    /\ hs[g].pc = "done"
                    /\ hs[g].status = OkStatus
        read == IF other /\ Len(receipts) > 0
                THEN Dumps(SubSeq(receipts, 1, Len(receipts) - 1))
                ELSE RECEIPTS_FILE
    IN /\ hs[h].op = "submit_return"
       /\ Len(receipts) < MaxReceipts
       /\ RECEIPTS_FILE' = append_receipt(read, hs[h].vrn, hs[h].pk, resp)
       /\ Raise(h, OkStatus, "json")

\* The API accepts the return: lines 244-246.
SubmitSucceeded(h, resp) ==
    /\ hs[h].op = "submit_return"
    /\ Len(receipts) < MaxReceipts
    /\ RECEIPTS_FILE' = append_receipt(RECEIPTS_FILE, hs[h].vrn, hs[h].pk, resp)
    /\ Raise(h, OkStatus, "json")

\* The process is killed inside append_receipt, line 62: write_text has opened
\* receipts.json for writing, which empties it, and the new content is not yet
\* written. The file is left unparsable and the process starts again.
CrashDuringAppend(h) ==
    /\ hs[h].pc = "calling"
    /\ hs[h].op = "submit_return"
    /\ uuids < MaxUuids
    /\ RECEIPTS_FILE' = Corrupt
    /\ uuids' = uuids + 1
    /\ STORE' = NewStore(TOKEN_FILE, uuids + 1)
    /\ hs' = [g \in Handlers |-> Idle]
    /\ mismatched' = FALSE
    /\ UNCHANGED <<now, TOKEN_FILE, issued, session>>

ApiResponse(h) ==
    /\ hs[h].pc = "calling"
    /\ \/ \E err \in Errors : ApiFailed(h, err.status, err.body)
       \/ ApiSucceeded(h)
       \/ \E resp \in SubmitResponses(hs[h].pk) : SubmitSucceeded(h, resp)
    /\ UNCHANGED <<now, STORE, TOKEN_FILE, issued, uuids, mismatched, session>>

----------------------------------------------------------------------------
(* The authorization redirect flow, lines 192-215 *)

\* Mutant: a nonce that is pending stays; the new one is handed out unstored.
connect_KeepsPending ==
    /\ uuids < MaxUuids
    /\ uuids' = uuids + 1
    /\ STORE' = [STORE EXCEPT !.state = IF STORE.state = NoState
                                         THEN uuids + 1 ELSE STORE.state]
    /\ mismatched' = FALSE
    /\ UNCHANGED <<now, TOKEN_FILE, RECEIPTS_FILE, hs, issued, session>>

\* GET /connect: a fresh uuid4 becomes the pending nonce.
connect ==
    /\ uuids < MaxUuids
    /\ uuids' = uuids + 1
    /\ STORE' = [STORE EXCEPT !.state = uuids + 1]
    /\ mismatched' = FALSE
    /\ UNCHANGED <<now, TOKEN_FILE, RECEIPTS_FILE, hs, issued, session>>

\* Mutant: the state parameter is not checked.
StateMismatch_Unchecked(state) == FALSE

\* Mutant: once a callback has failed on its state, every callback fails until
\* the next connect.
StateMismatch_Terminal(state) == state # STORE.state \/ mismatched

\* if state != STORE.get("state")
StateMismatch(state) == state # STORE.state

\* GET /oauth/hmrc/callback?code=..&state=..: the state check, then the
\* authorization_code grant is posted and awaited. The code is passed on to
\* the authority unread; what the authority makes of it is its answer.
CallbackStart(h, state) ==
    /\ hs[h].pc = "idle"
    /\ LET req == [Idle EXCEPT !.op = "oauth_callback", !.cbstate = state]
       IN IF StateMismatch(state)
          THEN hs' = [hs EXCEPT ![h] = [req EXCEPT !.pc = "done",
                                            !.status = StateMismatchStatus,
                                            !.body = "state mismatch"]]
          ELSE hs' = [hs EXCEPT ![h] = [req EXCEPT !.pc = "exchanging", !.nTok = 1]]
    /\ mismatched' = (mismatched \/ (StateMismatch(state) /\ STORE.state # NoState))
    /\ UNCHANGED <<now, STORE, TOKEN_FILE, RECEIPTS_FILE, issued, uuids, session>>

\* Mutant: a refused exchange ends the flow attempt: the nonce is dropped.
ExchangeFailed_DropsNonce(h, st, b) ==
    /\ Raise(h, st, b)
    /\ STORE' = [STORE EXCEPT !.state = NoState]
    /\ UNCHANGED <<TOKEN_FILE, issued>>

\* token_request raises on status >= 400: lines 113-114.
ExchangeFailed(h, st, b) ==
    /\ Raise(h, st, b)
    /\ UNCHANGED <<STORE, TOKEN_FILE, issued>>

\* Mutant: the new TokenSet is kept in memory and not written to tokens.json.
ExchangeSucceeded_NoSave(h, e) ==
    LET tokens == Stamp(TokenResponse(issued + 1, e), now)
    IN /\ issued < MaxIssued
       /\ issued' = issued + 1
       /\ STORE' = [STORE EXCEPT !.tokens = tokens]
       /\ TOKEN_FILE' = TOKEN_FILE
       /\ Raise(h, OkStatus, "Connected")

\* token_request returns r.json(): lines 212-215.
ExchangeSucceeded(h, e) ==
    LET tokens == Stamp(TokenResponse(issued + 1, e), now)
    IN /\ issued < MaxIssued
       /\ issued' = issued + 1
       /\ STORE' = [STORE EXCEPT !.tokens = tokens]
       /\ TOKEN_FILE' = save_tokens(tokens)
       /\ Raise(h, OkStatus, "Connected")

ExchangeResponse(h) ==
    /\ hs[h].pc = "exchanging"
    /\ \/ \E err \in Errors : ExchangeFailed(h, err.status, err.body)
       \/ \E e \in ExpiresIns : ExchangeSucceeded(h, e)
    /\ UNCHANGED <<now, RECEIPTS_FILE, uuids, mismatched, session>>

----------------------------------------------------------------------------
(* Local login: lines 146-149, 374-391, 396-400, 468-472 *)

\* d.get(k) of a dict of strings
Get(d, k) == IF k \in DOMAIN d THEN d[k] ELSE NoneStr

\* A route that touches neither STORE nor the files answers in one step.
Answer(h, op, form, st, b) ==
    /\ hs[h].pc = "idle"
    /\ hs' = [hs EXCEPT ![h] = [Idle EXCEPT !.op = op, !.pc = "done", !.form = form,
                                            !.status = st, !.body = b]]
    /\ UNCHANGED <<now, STORE, TOKEN_FILE, RECEIPTS_FILE, issued, uuids, mismatched>>

\* Mutant: the dashboards are served to everyone.
LoginMissing_Open(s) == FALSE

\* not request.session.get("user")
LoginMissing(s) == ~Truthy(Get(s, "user"))

\* The answer of a dashboard route: require_login's redirect, or the page.
Dashboard(h, op) ==
    /\ IF LoginMissing(session)
         THEN Answer(h, op, NoForm, SeeOtherStatus, "/login")
         ELSE Answer(h, op, NoForm, OkStatus, op)
    /\ UNCHANGED session

business_dashboard(h) == Dashboard(h, "business_dashboard")

agent_dashboard(h) == Dashboard(h, "agent_dashboard")

login_get(h) ==
    /\ IF Truthy(Get(session, "user"))
         THEN Answer(h, "login_get", NoForm, SeeOtherStatus, "/portal")
         ELSE Answer(h, "login_get", NoForm, OkStatus, "LOGIN_HTML")
    /\ UNCHANGED session

login_post(h, form) ==
    IF Get(form, "username") = APP_USER /\ Get(form, "password") = APP_PASS
    THEN /\ session' = [k \in DOMAIN session \cup {"user"} |->
                          IF k = "user" THEN APP_USER ELSE session[k]]
         /\ Answer(h, "login_post", form, SeeOtherStatus, "/portal")
    ELSE /\ UNCHANGED session
         /\ Answer(h, "login_post", form, OkStatus, "LOGIN_HTML (Invalid)")

logout(h) ==
    /\ session' = NoSession
    /\ Answer(h, "logout", NoForm, SeeOtherStatus, "/login")

----------------------------------------------------------------------------
(* Specifications *)

\* The state values a callback may carry: every uuid that can be drawn.
CallbackStates == 1..MaxUuids

\* An arriving request is given the lowest handler slot that is free.
Free(H) == { h \in H : hs[h].pc = "idle" }
FirstFree(H) == { h \in Free(H) : \A g \in Free(H) : h <= g }

\* The steps of a running process with handler slots H.
Running(H, requests) ==
    \/ connect
    \/ \E h \in H : Finish(h)
    \/ \E h \in FirstFree(H), req \in requests : ProxyStart(h, req)
    \/ \E h \in H : RefreshResponse(h)
    \/ \E h \in H : ApiResponse(h)
    \/ \E h \in FirstFree(H), state \in CallbackStates : CallbackStart(h, state)
    \/ \E h \in H : ExchangeResponse(h)

\* One request at a time, every route and every input, and restarts.
Next ==
    \/ Tick
    \/ Restart
    \/ Running(SeqHandlers, ProxyRequests)

Spec == Init /\ [][Next]_vars

\* Two requests in flight in one run of the process, interleaved at their
\* awaits, within one second.
ConcNext == Running(Handlers, ConcRequests)

ConcSpec == ConcInit /\ [][ConcNext]_vars

\* One request at a time, and the process may be killed while it rewrites
\* receipts.json.
CrashNext ==
    \/ Next
    \/ \E h \in SeqHandlers : CrashDuringAppend(h)

CrashSpec == Init /\ [][CrashNext]_vars

\* The last instant of the specification with the rotating authority: late
\* enough for a TokenSet obtained at MaxTime to come due.
MaxRotateTime == MaxTime + 2

\* A connected process starts with a TokenSet whose refresh token is the one
\* the authority issued last.
RotateInit ==
    /\ now = 1
    /\ TOKEN_FILE \in { Dumps(Stamp(TokenResponse(0, e), 1)) : e \in ExpiresIns }
    /\ RECEIPTS_FILE = Absent
    /\ uuids = 1
    /\ STORE = NewStore(TOKEN_FILE, 1)
    /\ hs = [h \in Handlers |-> Idle]
    /\ issued = 0
    /\ mismatched = FALSE
    /\ session = NoSession

\* Two proxy requests in flight against the rotating authority.
RotateNext ==
    \/ TickTo(MaxRotateTime)
    \/ \E h \in Handlers : Finish(h)
    \/ \E h \in FirstFree(Handlers), req \in ConcRequests : ProxyStart(h, req)
    \/ \E h \in Handlers : AuthorityRotates(h)
    \/ \E h \in Handlers : RotatedResponse(h)
    \/ \E h \in Handlers : ApiResponse(h)

RotateSpec == RotateInit /\ [][RotateNext]_vars

\* The browser of the local user among the other routes, one request at a
\* time, with the clock and restarts; the session cookie outlives the process.
LoginNext ==
    \/ Tick
    \/ Restart
    \/ Running(SeqHandlers, ConcRequests)
    \/ \E h \in SeqHandlers : login_get(h)
    \/ \E h \in SeqHandlers, form \in LoginForms : login_post(h, form)
    \/ \E h \in SeqHandlers : logout(h)
    \/ \E h \in SeqHandlers : business_dashboard(h)
    \/ \E h \in SeqHandlers : agent_dashboard(h)

LoginSpec == Init /\ [][LoginNext]_vars

----------------------------------------------------------------------------
(* Vocabulary of the properties *)

\* Handler h enters a proxy route in this step, so access_token() is called.
CallsAccessToken(h) ==
    /\ hs[h].pc = "idle"
    /\ hs'[h].pc # "idle"
    /\ hs'[h].op \in ProxyOps

\* access_token() hands its result to handler h in this step.
AccessTokenReturns(h) ==
    /\ hs[h].pc \in {"idle", "refreshing"}
    /\ hs'[h].pc = "calling"

\* The TokenSet carries obtained_at, so that its expiry is defined.
Stamped(t) == t # None /\ "obtained_at" \in DOMAIN t

\* obtained_at + expires_in, the absolute expiry of a stamped TokenSet.
Expiry(t) == t.obtained_at + t.expires_in

----------------------------------------------------------------------------
(* C1: while the stored TokenSet T has now < T.obtained_at + T.expires_in - 60, *)
(* access_token() returns T.access_token, posts nothing to the token endpoint   *)
(* and leaves the TokenSet in memory and on disk as it is.                      *)
C1_ValidTokenReturnedAsIs ==
    [][\A h \in Handlers :
        (/\ CallsAccessToken(h)
         /\ Stamped(STORE.tokens)
         /\ now < Expiry(STORE.tokens) - 60)
        => (/\ hs'[h].pc = "calling"
            /\ hs'[h].tok = STORE.tokens.access_token
            /\ hs'[h].nTok = 0
            /\ STORE' = STORE
            /\ TOKEN_FILE' = TOKEN_FILE
            /\ issued' = issued)]_vars

\* A route holds the access token of a TokenSet that is not yet due for refresh.
C1_Witness ==
    \E h \in Handlers :
        /\ hs[h].pc = "calling"
        /\ hs[h].nTok = 0
        /\ Stamped(STORE.tokens)
        /\ now < Expiry(STORE.tokens) - 60
        /\ hs[h].tok = STORE.tokens.access_token

(* C2: from the instant now = T.obtained_at + T.expires_in - 60 on, the boundary *)
(* instant included, one access_token() call posts exactly one refresh_token     *)
(* grant with T.refresh_token and, when it succeeds, returns the access token of *)
(* the response.                                                                 *)
C2_RefreshFromBoundaryOn ==
    [][\A h \in Handlers :
        /\ (/\ CallsAccessToken(h)
            /\ Stamped(STORE.tokens)
            /\ now >= Expiry(STORE.tokens) - 60)
           => (/\ hs'[h].pc = "refreshing"
               /\ hs'[h].nTok = 1
               /\ hs'[h].rt = STORE.tokens.refresh_token)
        /\ (hs[h].pc = "refreshing" /\ hs'[h].pc = "calling")
           => (/\ hs'[h].nTok = 1
               /\ hs'[h].tok = issued'
               /\ hs'[h].tok = STORE'.tokens.access_token)]_vars

(* C3: every access token access_token() returns belongs to a TokenSet with      *)
(* now < obtained_at + expires_in - 60 at the moment of return, a missing        *)
(* obtained_at counting as zero.                                                 *)
C3_ReturnedTokenNotExpired ==
    [][\A h \in Handlers :
        AccessTokenReturns(h)
        => (/\ STORE'.tokens # None
            /\ hs'[h].tok = STORE'.tokens.access_token
            /\ now < ObtainedAt(STORE'.tokens) + STORE'.tokens.expires_in - 60)]_vars

(* C4: with no TokenSet stored, every proxy route fails with 401 before any      *)
(* request to the token endpoint or the API, and changes no state.               *)
C4_NotConnectedFailsOffline ==
    [][\A h \in Handlers :
        (CallsAccessToken(h) /\ STORE.tokens = None)
        => (/\ hs'[h].pc = "done"
            /\ hs'[h].status = 401
            /\ hs'[h].nTok = 0
            /\ hs'[h].nApi = 0
            /\ UNCHANGED <<STORE, TOKEN_FILE, RECEIPTS_FILE, issued>>)]_vars

\* A submission has been refused as not connected, nothing being stored.
C4_Witness ==
    \E h \in Handlers :
        /\ hs[h].pc = "done"
        /\ hs[h].op = "submit_return"
        /\ hs[h].status = 401
        /\ hs[h].nTok = 0 /\ hs[h].nApi = 0
        /\ STORE.tokens = None
        /\ TOKEN_FILE = Absent

\* The refresh of handler h has failed and the handler holds the error.
RefreshFailedAt(h) ==
    /\ hs[h].pc = "done"
    /\ hs[h].op \in ProxyOps
    /\ hs[h].nTok = 1
    /\ hs[h].nApi = 0

(* C5: a refresh answered with status >= 400 fails the call with that status and *)
(* body and leaves the stale TokenSet in memory and on disk; the store is then   *)
(* still due for refresh, and a call on such a store posts a refresh with the    *)
(* same refresh token rather than failing as not connected.                      *)
C5_FailedRefreshKeepsStaleTokens ==
    /\ [][\A h \in Handlers :
            /\ (hs[h].pc = "refreshing" /\ hs'[h].pc = "done")
               => (/\ hs'[h].status >= 400
                   /\ [status |-> hs'[h].status, body |-> hs'[h].body] \in Errors
                   /\ hs'[h].nApi = 0
                   /\ STORE' = STORE
                   /\ TOKEN_FILE' = TOKEN_FILE)
            /\ (/\ CallsAccessToken(h)
                /\ Stamped(STORE.tokens)
                /\ Expiry(STORE.tokens) - 60 < now)
               => (/\ hs'[h].pc = "refreshing"
                   /\ hs'[h].nTok = 1
                   /\ hs'[h].rt = STORE.tokens.refresh_token)]_vars
    /\ [](\A h \in Handlers :
            RefreshFailedAt(h)
            => (/\ Stamped(STORE.tokens)
                /\ STORE.tokens.refresh_token = hs[h].rt
                /\ TOKEN_FILE = Dumps(STORE.tokens)
                /\ Expiry(STORE.tokens) - 60 < now))

\* A route has failed on its refresh and the stale TokenSet is still stored.
C5_Witness ==
    \E h \in Handlers :
        /\ RefreshFailedAt(h)
        /\ hs[h].status = 503 /\ hs[h].body = "e2"
        /\ Stamped(STORE.tokens)
        /\ STORE.tokens.refresh_token = hs[h].rt
        /\ TOKEN_FILE = Dumps(STORE.tokens)

\* Handler h takes up a callback in this step.
CallbackArrives(h) ==
    /\ hs[h].pc = "idle"
    /\ hs'[h].op = "oauth_callback"

(* C6: a callback whose state differs from the pending nonce fails with 400      *)
(* before any token request and leaves nonce and TokenSet alone; a callback      *)
(* carrying the pending nonce goes on to the code exchange.                      *)
C6_MismatchLeavesNonce ==
    [][\A h \in Handlers :
        CallbackArrives(h)
        => /\ (hs'[h].cbstate # STORE.state)
              => (/\ hs'[h].pc = "done"
                  /\ hs'[h].status = 400
                  /\ hs'[h].body = "state mismatch"
                  /\ hs'[h].nTok = 0
                  /\ UNCHANGED <<STORE, TOKEN_FILE, issued>>)
           /\ (hs'[h].cbstate = STORE.state)
              => (/\ hs'[h].pc = "exchanging"
                  /\ hs'[h].nTok = 1
                  /\ STORE' = STORE)]_vars

\* A callback has failed on its state while a nonce is pending.
C6_Witness ==
    \E h \in Handlers :
        /\ hs[h].op = "oauth_callback"
        /\ hs[h].pc = "done"
        /\ hs[h].status = 400
        /\ STORE.state # NoState
        /\ hs[h].cbstate # STORE.state

\* The state of handler h's callback has passed the check.
Accepted(h) == hs[h].op = "oauth_callback" /\ hs[h].nTok = 1

(* C7: the nonce is single-use: no two callbacks are accepted on the same state  *)
(* value (uuid4 never draws a value twice).                                      *)
C7_NonceSingleUse ==
    \A g, h \in Handlers :
        (g # h /\ Accepted(g) /\ Accepted(h)) => hs[g].cbstate # hs[h].cbstate

(* C8: a callback is accepted only on the nonce a connect has stored; only an    *)
(* accepted callback whose exchange succeeds creates a TokenSet, stamped         *)
(* obtained_at = now, in memory and in tokens.json; with a TokenSet stored no    *)
(* route fails as not connected.                                                 *)
C8_CallbackCreatesTokenSet ==
    /\ [][\A h \in Handlers :
            /\ (CallbackArrives(h) /\ hs'[h].pc = "exchanging")
               => (STORE.state # NoState /\ hs'[h].cbstate = STORE.state)
            /\ (/\ hs[h].op = "oauth_callback"
                /\ hs'[h] # hs[h]
                /\ STORE'.tokens # STORE.tokens)
               => (/\ hs[h].pc = "exchanging"
                   /\ hs'[h].pc = "done"
                   /\ hs'[h].status = 200)
            /\ (hs[h].pc = "exchanging" /\ hs'[h].pc = "done" /\ hs'[h].status = 200)
               => (/\ Stamped(STORE'.tokens)
                   /\ STORE'.tokens.obtained_at = now
                   /\ STORE'.tokens.access_token = issued'
                   /\ issued' = issued + 1
                   /\ TOKEN_FILE' = Dumps(STORE'.tokens))
            /\ (CallsAccessToken(h) /\ STORE.tokens # None)
               => hs'[h].status # 401]_vars
    /\ [](/\ STORE.state # NoState
             => (STORE.state \in 2..uuids /\ STORE.state # STORE.device_id)
          /\ \A h \in Handlers :
                (Accepted(h) /\ hs[h].pc = "done" /\ hs[h].status = 200)
                => STORE.tokens # None)

\* A callback has connected a process that started with nothing stored.
C8_Witness ==
    \E h \in Handlers :
        /\ Accepted(h)
        /\ hs[h].pc = "done"
        /\ hs[h].status = 200
        /\ Stamped(STORE.tokens)
        /\ STORE.tokens.obtained_at = now
        /\ STORE.tokens.access_token = 1
        /\ TOKEN_FILE = Dumps(STORE.tokens)

\* rec is {"vrn": vrn, "periodKey": pk, **r}.
IsReceiptOf(rec, vrn, pk, r) ==
    /\ DOMAIN rec = {"vrn", "periodKey"} \cup DOMAIN r
    /\ \A k \in DOMAIN r : rec[k] = r[k]
    /\ "vrn" \notin DOMAIN r => rec.vrn = vrn
    /\ "periodKey" \notin DOMAIN r => rec.periodKey = pk

\* The submission of handler h is answered with success in this step.
SubmitAccepted(h) ==
    /\ hs[h].op = "submit_return"
    /\ hs[h].pc = "calling"
    /\ hs'[h].pc = "done"
    /\ hs'[h].status = 200

(* C9: after append_receipt(vrn, pk, r), receipts() is the list it returned      *)
(* before followed by {vrn, periodKey: pk, **r}; with no receipts.json it is the *)
(* empty list.                                                                   *)
C9_ReceiptRoundTrip ==
    /\ [][\A h \in Handlers :
            SubmitAccepted(h)
            => (/\ Len(receipts') = Len(receipts) + 1
                /\ SubSeq(receipts', 1, Len(receipts)) = receipts
                /\ \E r \in SubmitResponses(hs[h].pk) :
                      IsReceiptOf(receipts'[Len(receipts')], hs[h].vrn, hs[h].pk, r))]_vars
    /\ [](RECEIPTS_FILE = Absent => receipts = <<>>)

\* A receipt without periodKey has been appended after the one already there.
C9_Witness ==
    /\ Len(receipts) = 2
    /\ receipts[1] = OldReceipt
    /\ receipts[2] = [vrn |-> "V2", periodKey |-> NoneStr, processingDate |-> "d1"]

(* C10: receipts.json changes only in the step that answers a submit_return      *)
(* with success; a submit_return that fails, and every other operation, leaves   *)
(* the log as it is.                                                             *)
C10_ReceiptOnlyOnSuccess ==
    [][/\ (RECEIPTS_FILE' # RECEIPTS_FILE) => \E h \in Handlers : SubmitAccepted(h)
       /\ (receipts' # receipts) => \E h \in Handlers : SubmitAccepted(h)
       /\ \A h \in Handlers :
            (/\ hs'[h].op = "submit_return"
             /\ hs[h].pc # "done"
             /\ hs'[h].pc = "done"
             /\ hs'[h].status # 200)
            => RECEIPTS_FILE' = RECEIPTS_FILE]_vars

\* A submission has been refused upstream and the log holds what it held.
C10_Witness ==
    \E h \in Handlers :
        /\ hs[h].op = "submit_return"
        /\ hs[h].pc = "done"
        /\ hs[h].nApi = 1
        /\ hs[h].status = 503
        /\ receipts = <<OldReceipt>>

(* C11: the receipt log is append-only: across every step, an append onto a      *)
(* receipts.json that cannot be parsed included, the list receipts() gave before *)
(* is a prefix of the list it gives after.                                       *)
C11_LogAppendOnly ==
    [][/\ Len(receipts) <= Len(receipts')
       /\ SubSeq(receipts', 1, Len(receipts)) = receipts]_vars

(* C12: when the API answers one of the five proxy routes with a status >= 400   *)
(* and a body, the route fails with that status and that body after its one API  *)
(* call, and the TokenSet, tokens.json and the receipt log stay as they are; no  *)
(* route ever makes a second API call.                                           *)
C12_UpstreamErrorPassthrough ==
    /\ [][\A h \in Handlers :
            (hs[h].pc = "calling" /\ hs'[h].pc = "done" /\ hs'[h].status # 200)
            => (/\ hs'[h].status >= 400
                /\ [status |-> hs'[h].status, body |-> hs'[h].body] \in Errors
                /\ hs'[h].op = hs[h].op
                /\ hs'[h].nApi = 1
                /\ UNCHANGED <<STORE, TOKEN_FILE, RECEIPTS_FILE, issued>>)]_vars
    /\ [](\A h \in Handlers :
            /\ hs[h].nApi <= 1
            /\ hs[h].pc = "calling" => (hs[h].op \in ProxyOps /\ hs[h].nApi = 1))

\* The API has refused a view_return with 400 "e1" and the route has failed
\* with the same, after one call.
C12_Witness ==
    \E h \in Handlers :
        /\ hs[h].op = "view_return"
        /\ hs[h].pc = "done"
        /\ hs[h].nApi = 1
        /\ hs[h].status = 400 /\ hs[h].body = "e1"
        /\ STORE.tokens # None
        /\ TOKEN_FILE = Dumps(STORE.tokens)

Whole(t, n, time) ==
    /\ t # None
    /\ DOMAIN t = {"kind", "access_token", "refresh_token", "expires_in", "obtained_at"}
    /\ t.access_token \in 1..n
    /\ t.refresh_token = t.access_token
    /\ t.expires_in \in ExpiresIns
    /\ t.obtained_at \in 1..time

C16_RefreshUnsynchronized ==
    [][\A g, h \in Handlers :
        /\ (/\ g # h
            /\ hs[g].pc = "refreshing"
            /\ STORE.tokens # None
            /\ hs[g].rt = STORE.tokens.refresh_token
            /\ CallsAccessToken(h))
           => (/\ hs'[h].pc = "refreshing"
               /\ hs'[h].rt = hs[g].rt
               /\ hs'[h].nTok = 1
               /\ hs'[g] = hs[g])
        /\ (hs[h].pc = "refreshing" /\ hs'[h].pc = "calling")
           => (/\ STORE'.tokens.access_token = hs'[h].tok
               /\ STORE'.tokens.obtained_at = now
               /\ TOKEN_FILE' = Dumps(STORE'.tokens))]_vars

\* Both handlers have refreshed with the same refresh token; the second
\* handler's refresh was answered first, and the TokenSet stored in memory and
\* in tokens.json is the one of the first handler, which finished last.
C16_Witness ==
    /\ \A h \in Handlers :
          /\ hs[h].op \in ProxyOps
          /\ hs[h].pc \in {"calling", "done"}
          /\ hs[h].nTok = 1
          /\ hs[h].nApi = 1
          /\ hs[h].rt = 0
    /\ hs[2].tok = 1
    /\ hs[1].tok = 2
    /\ STORE.tokens.access_token = 2
    /\ TOKEN_FILE = Dumps(STORE.tokens)

\* The process starts anew in this step: line 76 draws a new device id.
Starts == STORE'.device_id # STORE.device_id

(* C17: a process start takes its state from the files alone: the TokenSet in    *)
(* memory is the one in tokens.json, None when the file is absent or unparsable, *)
(* and the files stay; a process started on a stored TokenSet serves             *)
(* access_token() without a new authorization; the pending nonce is not carried  *)
(* over, so every pending nonce was drawn after the start and a callback for a   *)
(* redirect made before it fails with "state mismatch".                          *)
C17_StartFromDurableStateOnly ==
    /\ [][/\ Starts
             => (/\ STORE'.tokens = load_tokens(TOKEN_FILE)
                 /\ TOKEN_FILE.kind # "json" => STORE'.tokens = None
                 /\ STORE'.tokens = STORE.tokens
                 /\ STORE'.state = NoState
                 /\ UNCHANGED <<TOKEN_FILE, RECEIPTS_FILE>>)
          /\ \A h \in Handlers :
                /\ (/\ CallsAccessToken(h)
                    /\ STORE.device_id > 1
                    /\ STORE.state = NoState
                    /\ TOKEN_FILE.kind = "json")
                   => (/\ hs'[h].pc \in {"refreshing", "calling"}
                       /\ hs'[h].nTok = 1 => hs'[h].rt = TOKEN_FILE.val.refresh_token
                       /\ hs'[h].nApi = 1 => hs'[h].tok = TOKEN_FILE.val.access_token)
                /\ (CallbackArrives(h) /\ hs'[h].cbstate <= STORE.device_id)
                   => (/\ hs'[h].pc = "done"
                       /\ hs'[h].status = 400
                       /\ hs'[h].body = "state mismatch")]_vars
    /\ [](STORE.state # NoState => STORE.state > STORE.device_id)

\* A process connected through nonce 2 has started again: it holds the TokenSet
\* of tokens.json and no nonce, and a callback carrying nonce 2 has failed.
C17_Witness ==
    /\ STORE.device_id = 3
    /\ STORE.state = NoState
    /\ STORE.tokens # None
    /\ STORE.tokens.access_token = 1
    /\ TOKEN_FILE = Dumps(STORE.tokens)
    /\ \E h \in Handlers :
          /\ hs[h].op = "oauth_callback"
          /\ hs[h].cbstate = 2
          /\ hs[h].pc = "done"
          /\ hs[h].status = 400

\* GET /connect is served in this step: a uuid is drawn by the running process.
Connects == uuids' # uuids /\ STORE'.device_id = STORE.device_id

(* C18: every connect replaces the pending nonce by the one it draws, so that    *)
(* the pending nonce is always the last one drawn; after connect N1 and connect  *)
(* N2 a callback with state N1 fails with "state mismatch" and only a callback   *)
(* with state N2 is accepted.                                                    *)
C18_ConnectOverwritesNonce ==
    /\ [][/\ Connects
             => (/\ STORE'.state = uuids'
                 /\ STORE'.state # STORE.state
                 /\ STORE'.state \notin 0..uuids
                 /\ STORE'.tokens = STORE.tokens)
          /\ \A h \in Handlers :
                CallbackArrives(h)
                => /\ hs'[h].pc = "exchanging" <=> hs'[h].cbstate = STORE.state
                   /\ hs'[h].pc = "exchanging" => hs'[h].cbstate = uuids
                   /\ hs'[h].cbstate < uuids
                      => (/\ hs'[h].pc = "done"
                          /\ hs'[h].status = 400
                          /\ hs'[h].body = "state mismatch")]_vars
    /\ [](STORE.state # NoState => STORE.state = uuids)

\* Two connects have drawn nonce 2 and then nonce 3; the callback with state 2
\* has failed and nonce 3 is still pending.
C18_Witness ==
    /\ STORE.device_id = 1
    /\ STORE.state = 3
    /\ mismatched
    /\ \E h \in Handlers :
          /\ hs[h].op = "oauth_callback"
          /\ hs[h].cbstate = 2
          /\ hs[h].pc = "done"
          /\ hs[h].status = 400
          /\ hs[h].body = "state mismatch"

\* The code exchange of handler h's callback succeeds in this step: the flow is
\* complete.
FlowCompletes(h) ==
    /\ hs[h].pc = "exchanging"
    /\ hs'[h].pc = "done"
    /\ hs'[h].status = 200

(* C19: a state mismatch is terminal for the flow attempt: once a callback has   *)
(* failed with "state mismatch" against the pending nonce, no callback completes *)
(* the flow before a new connect.                                                *)
C19_MismatchTerminal ==
    [][\A h \in Handlers : FlowCompletes(h) => ~mismatched]_vars

(* C19, amended: a state mismatch fails the callback that carried it and nothing *)
(* else: the nonce stays pending, and a later callback that carries it is        *)
(* accepted and, when its code exchange succeeds, completes the flow without a   *)
(* new connect.                                                                  *)
C19_MismatchFailsOneCallback ==
    /\ [][\A h \in Handlers :
            /\ (CallbackArrives(h) /\ mismatched /\ hs'[h].cbstate = STORE.state)
               => (/\ hs'[h].pc = "exchanging"
                   /\ hs'[h].nTok = 1
                   /\ STORE' = STORE)
            /\ (CallbackArrives(h) /\ hs'[h].status = 400 /\ STORE.state # NoState)
               => (/\ mismatched'
                   /\ STORE'.state = STORE.state
                   /\ hs'[h].cbstate # STORE.state)
            /\ (FlowCompletes(h) /\ mismatched)
               => (/\ STORE'.tokens.access_token = issued'
                   /\ TOKEN_FILE' = Dumps(STORE'.tokens)
                   /\ STORE'.state = hs[h].cbstate)]_vars
    /\ [](mismatched => (STORE.state # NoState /\ STORE.state = uuids))

\* After a callback failed on its state, with no connect since, the callback
\* that carries the pending nonce has completed the flow.
C19_Witness ==
    /\ mismatched
    /\ \E h \in Handlers :
          /\ hs[h].op = "oauth_callback"
          /\ hs[h].cbstate = STORE.state
          /\ hs[h].pc = "done"
          /\ hs[h].status = 200
          /\ hs[h].body = "Connected"
    /\ STORE.tokens # None
    /\ STORE.tokens.access_token = issued
    /\ TOKEN_FILE = Dumps(STORE.tokens)

\* The names of the fraud-prevention headers and of Accept.
FraudHeaders ==
    {"Accept", "Gov-Client-Device-Id", "Gov-Client-Public-IP",
     "Gov-Client-Local-IPs", "Gov-Client-Timezone", "Gov-Client-User-IDs",
     "Gov-Vendor-Version", "Gov-Client-User-Agent"}

(* C20: the API call of a route carries Gov-Test-Scenario exactly when the route *)
(* is obligations, liabilities or payments and the request names a scenario that *)
(* is not empty, and then with that value; the calls of submit_return and        *)
(* view_return never carry it; every API call of the five routes carries         *)
(* Authorization: Bearer <token> and every fraud-prevention header, the device   *)
(* id being that of the running process.                                         *)
C20_HeadersOfApiCalls ==
    \A h \in Handlers :
        /\ hs[h].nApi = 0 => hs[h].headers = NoHeaders
        /\ hs[h].nApi = 1
           => LET sent == hs[h].headers
              IN /\ hs[h].op \in ProxyOps
                 /\ "Gov-Test-Scenario" \in DOMAIN sent
                       <=> (/\ hs[h].op \in {"obligations", "liabilities", "payments"}
                            /\ hs[h].scenario \notin {NoneStr, ""})
                 /\ "Gov-Test-Scenario" \in DOMAIN sent
                       => sent["Gov-Test-Scenario"] = <<hs[h].scenario>>
                 /\ hs[h].op \in {"submit_return", "view_return"}
                       => "Gov-Test-Scenario" \notin DOMAIN sent
                 /\ "Authorization" \in DOMAIN sent
                 /\ sent["Authorization"] = <<"Bearer", hs[h].tok>>
                 /\ FraudHeaders \subseteq DOMAIN sent
                 /\ sent["Gov-Client-Device-Id"] = <<STORE.device_id>>
                 /\ sent["Gov-Client-User-Agent"]
                       = <<IF hs[h].ua = NoneStr THEN "my-vat-filer/1.0" ELSE hs[h].ua>>
                 /\ sent["Gov-Client-Public-IP"]
                       = <<IF hs[h].client = NoneStr THEN "203.0.113.10"
                                                    ELSE hs[h].client>>

\* Calls in flight or answered: a liabilities call with the scenario it was
\* given.
C20_Witness ==
    \E h \in Handlers :
        /\ hs[h].op = "liabilities"
        /\ hs[h].scenario = "S1"
        /\ hs[h].pc = "calling"
        /\ hs[h].nApi = 1
        /\ "Gov-Test-Scenario" \in DOMAIN hs[h].headers
        /\ hs[h].headers["Gov-Test-Scenario"] = <<"S1">>
        /\ hs[h].headers["Authorization"] = <<"Bearer", hs[h].tok>>
        /\ STORE.device_id = 2
        /\ hs[h].headers["Gov-Client-Device-Id"] = <<2>>

(* C21: the device id changes only when the process starts anew: connect, the    *)
(* callback, a refresh and every step of a proxy route leave it as it is, and    *)
(* every API call of the running process carries it as Gov-Client-Device-Id. The *)
(* step that builds the headers of a call with the stored token changes nothing  *)
(* but the handler, and it builds them also for a request with no user-agent and *)
(* no peer address.                                                              *)
C21_DeviceIdFixed ==
    /\ [][/\ Starts
             => (/\ uuids' = uuids + 1
                 /\ STORE'.device_id = uuids'
                 /\ \A h \in Handlers : hs'[h] = Idle)
          /\ (\E h \in Handlers : hs'[h] # hs[h] /\ hs'[h].pc # "idle")
             => STORE'.device_id = STORE.device_id
          /\ Connects => STORE'.device_id = STORE.device_id
          /\ \A h \in Handlers :
                (CallsAccessToken(h) /\ hs'[h].pc = "calling")
                => (/\ UNCHANGED <<now, STORE, TOKEN_FILE, RECEIPTS_FILE,
                                   issued, uuids, mismatched>>
                    /\ FraudHeaders \subseteq DOMAIN hs'[h].headers
                    /\ hs'[h].headers["Gov-Client-Device-Id"] = <<STORE.device_id>>)]_vars
    /\ [](\A h \in Handlers :
            hs[h].nApi = 1
            => hs[h].headers["Gov-Client-Device-Id"] = <<STORE.device_id>>)

\* After a start that drew device id 2 and a connect, the call of a request
\* with no user-agent and no peer address is out with device id 2 and with the
\* defaults of the two headers.
C21_Witness ==
    /\ STORE.device_id = 2
    /\ STORE.state = 3
    /\ \E h \in Handlers :
          /\ hs[h].pc = "calling"
          /\ hs[h].ua = NoneStr
          /\ hs[h].client = NoneStr
          /\ hs[h].headers["Gov-Client-Device-Id"] = <<2>>
          /\ hs[h].headers["Gov-Client-User-Agent"] = <<"my-vat-filer/1.0">>
          /\ hs[h].headers["Gov-Client-Public-IP"] = <<"203.0.113.10">>

(* C22: when the token endpoint answers the code exchange of a callback with a   *)
(* status >= 400, the callback fails with that status and body after its one     *)
(* token request, and the TokenSet in memory and in tokens.json, the pending     *)
(* nonce and the receipt log stay as they are.                                   *)
C22_FailedExchangeKeepsState ==
    [][\A h \in Handlers :
        (hs[h].pc = "exchanging" /\ hs'[h].pc = "done" /\ hs'[h].status # 200)
        => (/\ hs'[h].op = "oauth_callback"
            /\ hs'[h].status >= 400
            /\ [status |-> hs'[h].status, body |-> hs'[h].body] \in Errors
            /\ hs'[h].nTok = 1
            /\ STORE'.tokens = STORE.tokens
            /\ STORE'.state = STORE.state
            /\ TOKEN_FILE' = TOKEN_FILE
            /\ RECEIPTS_FILE' = RECEIPTS_FILE
            /\ issued' = issued)]_vars

\* The exchange of a callback on the pending nonce has been refused with 400
\* "e1"; the process still holds the TokenSet it started with, in memory and in
\* tokens.json, and the nonce.
C22_Witness ==
    \E h \in Handlers :
        /\ hs[h].op = "oauth_callback"
        /\ hs[h].pc = "done"
        /\ hs[h].nTok = 1
        /\ hs[h].status = 400 /\ hs[h].body = "e1"
        /\ STORE.state = hs[h].cbstate
        /\ Stamped(STORE.tokens)
        /\ STORE.tokens.access_token = 0
        /\ TOKEN_FILE = Dumps(STORE.tokens)
        /\ receipts = <<OldReceipt>>

\* The handlers that hold the success of a submission.
Submitted ==
    { h \in Handlers :
        hs[h].op = "submit_return" /\ hs[h].pc = "done" /\ hs[h].status = 200 }

(* C23: no receipt is lost when submissions interleave at their awaits: the step *)
(* that answers one submit_return with success appends its record to the log as  *)
(* it is at that moment, the records of the other handler included, so the log   *)
(* holds a record for every handler that holds a success.                        *)
C23_NoReceiptLost ==
    /\ [][\A h \in Handlers :
            SubmitAccepted(h)
            => (/\ Len(receipts') = Len(receipts) + 1
                /\ \A i \in DOMAIN receipts : receipts'[i] = receipts[i]
                /\ receipts'[Len(receipts')].vrn = hs[h].vrn)]_vars
    /\ [](Cardinality({ i \in DOMAIN receipts : receipts[i].vrn = "V1" })
             >= Cardinality(Submitted))

\* Two submissions were in flight together, both refreshing with refresh token
\* 0; both have been accepted and the log holds two records.
C23_Witness ==
    /\ Submitted = Handlers
    /\ \A h \in Handlers : hs[h].rt = 0 /\ hs[h].nTok = 1 /\ hs[h].nApi = 1
    /\ hs[1].tok # hs[2].tok
    /\ Len(receipts) = 2
    /\ \A i \in DOMAIN receipts :
          receipts[i].vrn = "V1" /\ receipts[i].periodKey = "18A1"

\* No refresh is in flight.
Quiet == \A h \in Handlers : hs[h].pc # "refreshing"

(* C24: against an authority that rotates refresh tokens, whenever no refresh is *)
(* in flight the TokenSet stored in memory and in tokens.json holds the refresh  *)
(* token the authority issued last, so that the refresh a later access_token()   *)
(* posts carries the refresh token the authority accepts.                        *)
C24_StoredRefreshTokenIsLatest ==
    /\ [](Quiet
          => (/\ STORE.tokens # None
              /\ STORE.tokens.refresh_token = issued
              /\ TOKEN_FILE = Dumps(STORE.tokens)))
    /\ [][\A h \in Handlers :
            (Quiet /\ CallsAccessToken(h) /\ hs'[h].pc = "refreshing")
            => hs'[h].rt = issued]_vars

\* Two routes have refreshed with refresh token 0 at the same time: the
\* authority granted one and refused the other, both have their answers, and
\* the stored TokenSet holds refresh token 1, the last one issued.
C24_Witness ==
    /\ Quiet
    /\ issued = 1
    /\ STORE.tokens.refresh_token = 1
    /\ \A h \in Handlers : hs[h].rt = 0 /\ hs[h].nTok = 1
    /\ \E g, h \in Handlers :
          /\ hs[g].answer.kind = "error"
          /\ hs[g].pc = "done"
          /\ hs[g].nApi = 0
          /\ hs[h].answer.kind = "ok"
          /\ hs[h].tok = 1

----------------------------------------------------------------------------
\* Handler h serves route op in this step.
Serves(h, op) ==
    /\ hs[h].pc = "idle"
    /\ hs'[h].pc = "done"
    /\ hs'[h].op = op

\* The credentials handler h was posted are the configured ones.
Matches(form) ==
    /\ Get(form, "username") = APP_USER
    /\ Get(form, "password") = APP_PASS

LoginRoutes ==
    {"login_get", "login_post", "logout", "business_dashboard", "agent_dashboard"}

(* C25: the session's user changes only in a login_post whose username and      *)
(* password equal APP_USER and APP_PASS, which sets it to APP_USER, or in a      *)
(* logout, which empties the session; a login_post with any other form leaves    *)
(* the session as it was; business_dashboard and agent_dashboard answer 303 to   *)
(* /login whenever the session has no user; and none of the login routes         *)
(* touches STORE or the files.                                                   *)
C25_LoginGating ==
    /\ [](Get(session, "user") \in {NoneStr, APP_USER})
    /\ [][Get(session', "user") # Get(session, "user")
            => \E h \in Handlers :
                  \/ /\ Serves(h, "login_post")
                     /\ Matches(hs'[h].form)
                     /\ Get(session', "user") = APP_USER
                  \/ /\ Serves(h, "logout")
                     /\ session' = NoSession]_vars
    /\ [][\A h \in Handlers :
            /\ Serves(h, "logout") => session' = NoSession
            /\ (Serves(h, "login_post") /\ ~Matches(hs'[h].form))
                  => session' = session
            /\ \A op \in {"business_dashboard", "agent_dashboard"} :
                  (Serves(h, op) /\ ~Truthy(Get(session, "user")))
                     => (/\ hs'[h].status = SeeOtherStatus
                         /\ hs'[h].body = "/login")
            /\ \A op \in LoginRoutes :
                  Serves(h, op) => UNCHANGED <<STORE, TOKEN_FILE, RECEIPTS_FILE>>]_vars

\* With tokens stored and a connect pending, a browser whose session has no
\* user asks for the business dashboard and is sent to /login.
C25_Witness ==
    /\ STORE.tokens # None
    /\ STORE.state # NoState
    /\ ~Truthy(Get(session, "user"))
    /\ \E h \in Handlers :
          /\ hs[h].pc = "done"
          /\ hs[h].op = "business_dashboard"
          /\ hs[h].status = SeeOtherStatus
          /\ hs[h].body = "/login"

====
